---- MODULE Spec2Model ----
(***************************************************************************)
(* psf2verilog: a PC Screen Font file (generation one or two) is parsed by *)
(* TryFrom<File> for PSF, its optional unicode table is decoded by         *)
(* PSF::parse_table, and PSF::into_verilog prints a Verilog lookup table.  *)
(* The model follows src/src/main.rs statement by statement; one action    *)
(* per I/O step of try_from, one per iteration of the two loops.           *)
(*                                                                         *)
(* A u32 is kept as two 16-bit halves [hi, lo] so that every 32-bit value  *)
(* is representable and the wrapping product is computed at full width.    *)
(***************************************************************************)
EXTENDS Integers, Sequences, FiniteSets, TLC

\* ------------------------------------------------------------------ bounds
MaxUnits == 4        \* generation-one tables: at most this many 16-bit units
MaxTableLen == 5     \* generation-two tables: at most this many bytes
MaxHeight == 1       \* generation-one fonts with a bitmap: heights 1..MaxHeight
MaxLength == 3       \* generation-two geometry sweep: glyph counts 0..MaxLength

\* ------------------------------------------------------- program constants
PSF1_MAGIC == <<54, 4>>
PSF1_MODE512 == 1
PSF1_MODEHASTAB == 2
PSF1_MODEHASSEQ == 4
PSF1_SEPARATOR == 65535
PSF1_STARTSEQ == 65534
PSF2_MAGIC == <<114, 181, 74, 134>>
PSF2_SEPARATOR == 255
PSF2_STARTSEQ == 254
PSF2_MAXVERSION == 0
PSF2_HASUNICODETABLE == 1

\* --------------------------------------------------------- integer helpers
Half == 256 * 256

\* a u32 below 2^31 from a natural number
U32 == [hi : 0..(Half - 1), lo : 0..(Half - 1)]
ToU32(n) == [hi |-> n \div Half, lo |-> n % Half]

\* u32::from_le_bytes on four bytes
from_le_bytes32(b) == [lo |-> b[1] + 256 * b[2], hi |-> b[3] + 256 * b[4]]

\* u16::from_le_bytes on two bytes
from_le_bytes16(b) == b[1] + 256 * b[2]

\* the value of a u32 known to be below 2^31
ToNat(u) == u.hi * Half + u.lo

IsZero32(u) == u.hi = 0 /\ u.lo = 0

\* x & mask != 0 for a one-bit mask
BitSet(x, mask) == (x \div mask) % 2 = 1

\* a * b mod 2^16 for 16-bit a, b, without leaving 31 bits
MulLo16(a, b) == (a * (b % 256) + ((a * (b \div 256)) % 256) * 256) % Half

\* the full 32-bit product of two 16-bit numbers, as [hi, lo]
Mul16(a, b) ==
    LET a1 == a \div 256  a0 == a % 256
        b1 == b \div 256  b0 == b % 256
        t  == (a1 * b0 + a0 * b1) * 256 + a0 * b0
    IN  [hi |-> t \div Half + a1 * b1, lo |-> t % Half]

\* u32 wrapping multiplication (release build)
wrapping_mul(a, b) ==
    LET ll == Mul16(a.lo, b.lo)
    IN  [hi |-> (ll.hi + MulLo16(a.hi, b.lo) + MulLo16(a.lo, b.hi)) % Half,
         lo |-> ll.lo]

\* x * y > m for 16-bit x, y and 0 <= m < 2^16
ProductExceeds(x, y, m) == x # 0 /\ y # 0 /\ x > m \div y

\* does a * b leave 32 bits (debug build: "attempt to multiply with overflow")
mul_overflows(a, b) ==
    LET ll == Mul16(a.lo, b.lo)
    IN  \/ a.hi # 0 /\ b.hi # 0
        \/ a.hi # 0 /\ ProductExceeds(a.hi, b.lo, Half - 1 - ll.hi)
        \/ b.hi # 0 /\ ProductExceeds(a.lo, b.hi, Half - 1 - ll.hi)

\* u32 wrapping subtraction of one
wrapping_dec(u) ==
    IF u.lo > 0 THEN [hi |-> u.hi, lo |-> u.lo - 1]
    ELSE IF u.hi > 0 THEN [hi |-> u.hi - 1, lo |-> Half - 1]
    ELSE [hi |-> Half - 1, lo |-> Half - 1]

\* n as u32 / d, for a natural n below 2^16 and a nonzero u32 d
DivNat32(n, d) == IF d.hi # 0 THEN 0 ELSE n \div d.lo

\* (length as f64).log2().ceil() as u8; log2(0) is -inf and casts to 0
RECURSIVE ceil_log2(_)
ceil_log2(n) == IF n <= 1 THEN 0 ELSE 1 + ceil_log2((n + 1) \div 2)

\* ------------------------------------------------------------ text decoding
DecodeError == [ok |-> FALSE, chars |-> <<>>]

Cons(c, r) == IF r.ok THEN [ok |-> TRUE, chars |-> <<c>> \o r.chars] ELSE DecodeError

Drop(s, n) == SubSeq(s, n + 1, Len(s))

IsSurrogate(u) == u >= 55296 /\ u <= 57343
IsLowSurrogate(u) == u >= 56320 /\ u <= 57343

\* std::char::decode_utf16(..).map(Result::unwrap).collect(): the characters
\* of a UTF-16 unit sequence; ok is FALSE where an unwrap would panic
RECURSIVE decode_utf16(_)
decode_utf16(u) ==
    IF u = <<>> THEN [ok |-> TRUE, chars |-> <<>>]
    ELSE IF ~IsSurrogate(u[1]) THEN Cons(u[1], decode_utf16(Drop(u, 1)))
    ELSE IF IsLowSurrogate(u[1]) THEN DecodeError
    ELSE IF Len(u) < 2 THEN DecodeError
    ELSE IF ~IsLowSurrogate(u[2]) THEN DecodeError
    ELSE Cons(65536 + (u[1] - 55296) * 1024 + (u[2] - 56320),
              decode_utf16(Drop(u, 2)))

IsCont(b) == b >= 128 /\ b <= 191

\* number of bytes the UTF-8 sequence starting at b[1] takes, 0 if ill-formed
Utf8Width(b) ==
    LET f == b[1]
        c(k) == Len(b) >= k /\ IsCont(b[k])
    IN  IF f < 128 THEN 1
        ELSE IF f >= 194 /\ f <= 223 THEN (IF c(2) THEN 2 ELSE 0)
        ELSE IF f = 224 THEN (IF c(2) /\ b[2] >= 160 /\ c(3) THEN 3 ELSE 0)
        ELSE IF f = 237 THEN (IF c(2) /\ b[2] <= 159 /\ c(3) THEN 3 ELSE 0)
        ELSE IF f >= 225 /\ f <= 239 THEN (IF c(2) /\ c(3) THEN 3 ELSE 0)
        ELSE IF f = 240 THEN (IF c(2) /\ b[2] >= 144 /\ c(3) /\ c(4) THEN 4 ELSE 0)
        ELSE IF f = 244 THEN (IF c(2) /\ b[2] <= 143 /\ c(3) /\ c(4) THEN 4 ELSE 0)
        ELSE IF f >= 241 /\ f <= 243 THEN (IF c(2) /\ c(3) /\ c(4) THEN 4 ELSE 0)
        ELSE 0

\* the scalar value of a well-formed UTF-8 sequence of w bytes
Utf8Scalar(b, w) ==
    IF w = 1 THEN b[1]
    ELSE IF w = 2 THEN (b[1] - 192) * 64 + (b[2] - 128)
    ELSE IF w = 3 THEN (b[1] - 224) * 4096 + (b[2] - 128) * 64 + (b[3] - 128)
    ELSE (b[1] - 240) * 262144 + (b[2] - 128) * 4096 + (b[3] - 128) * 64 + (b[4] - 128)

\* std::str::from_utf8(..).unwrap().chars().collect()
RECURSIVE from_utf8(_)
from_utf8(b) ==
    IF b = <<>> THEN [ok |-> TRUE, chars |-> <<>>]
    ELSE LET w == Utf8Width(b)
         IN  IF w = 0 THEN DecodeError
             ELSE Cons(Utf8Scalar(b, w), from_utf8(Drop(b, w)))

\* ------------------------------------------------------------- formatting
HexDigits == <<"0", "1", "2", "3", "4", "5", "6", "7",
               "8", "9", "A", "B", "C", "D", "E", "F">>

\* format!("{:0>2X}", byte)
format_hex2(b) == <<HexDigits[(b \div 16) + 1], HexDigits[(b % 16) + 1]>>

\* format!("{:b}", i): the binary digits of i, most significant first
RECURSIVE format_bin(_)
format_bin(i) == IF i < 2 THEN <<i>> ELSE format_bin(i \div 2) \o <<i % 2>>

\* format!("{:0>w$b}", i): left-padded with zeros to at least w digits
format_bin_padded(i, w) ==
    LET d == format_bin(i)
    IN  IF Len(d) >= w THEN d ELSE [k \in 1..(w - Len(d)) |-> 0] \o d

\* ------------------------------------------------------------------ inputs
SeqsUpTo(S, n) == UNION {[1..k -> S] : k \in 0..n}

RECURSIVE Flatten(_)
Flatten(ss) == IF ss = <<>> THEN <<>> ELSE ss[1] \o Flatten(Drop(ss, 1))

LE16(u) == <<u % 256, u \div 256>>
LE32(v) == LE16(v.lo) \o LE16(v.hi)

\* 'A', combining acute, a surrogate pair's halves, and the two markers
TableUnits1 == {65, 769, 55357, 56832, PSF1_STARTSEQ, PSF1_SEPARATOR}
\* generation-one table regions: whole units, optionally one odd byte more
Tables1 ==
    {Flatten([k \in 1..Len(u) |-> LE16(u[k])]) \o t :
        u \in SeqsUpTo(TableUnits1, MaxUnits), t \in {<<>>, <<65>>}}

\* 'A', the two bytes of U+00E9, and the two markers
TableBytes2 == {65, 195, 169, PSF2_STARTSEQ, PSF2_SEPARATOR}
Tables2 == SeqsUpTo(TableBytes2, MaxTableLen)

\* a few trailers for the geometry sweeps: none, one entry, ill-formed text
Trailers1 == {<<>>, <<65, 0, 255, 255>>, <<0, 216, 255, 255>>}
Trailers2 == {<<>>, <<65, 255>>, <<195, 255>>}

Pattern(n) == [p \in 1..n |-> (37 * p + 11) % 256]
Zeros(n) == [p \in 1..n |-> 0]
CutLast(f, c) == SubSeq(f, 1, Len(f) - c)

\* files that are no font, or too short to tell
OtherFiles ==
    {<<>>, <<54>>, <<54, 4, 0>>, <<0, 0, 0, 0>>, <<54, 5, 0, 0>>,
     <<55, 4, 0, 0, 0>>, <<114, 181, 74, 0>>, <<114, 181, 0, 0, 0, 0>>,
     <<114, 181, 74, 134>>, <<114, 181, 74, 134, 0, 0, 0, 0>>}

PSF1Modes == 0..7

PSF1File(m, h, t) ==
    <<54, 4, m, h>> \o Pattern(h * (IF m % 2 = 1 THEN 512 ELSE 256)) \o t

PSF1Files ==
    {<<54, 4, 2, 0>> \o t : t \in Tables1}
    \cup {<<54, 4, m, 0>> \o t : m \in PSF1Modes, t \in Trailers1}
    \cup {CutLast(PSF1File(m, h, <<>>), 1) : m \in {0, 1}, h \in 1..MaxHeight}
    \cup {PSF1File(m, h, t) : m \in {0, 1, 2}, h \in 1..MaxHeight,
                              t \in {<<>>, <<65, 0, 255, 255>>}}

PSF2HeaderBytes(v, hs, fl, len, cs) ==
    PSF2_MAGIC \o LE32(v) \o LE32(hs) \o LE32(fl) \o LE32(len) \o LE32(cs)
        \o LE32(cs) \o LE32(ToU32(8))

\* a generation-two file with small fields: padding up to header_size, a
\* bitmap of len * cs bytes, a trailer, and c bytes cut off the end
PSF2File(v, hs, fl, len, cs, t, c) ==
    LET body == Zeros(IF hs > 32 THEN hs - 32 ELSE 0) \o Pattern(len * cs) \o t
    IN  PSF2HeaderBytes(ToU32(v), ToU32(hs), ToU32(fl), ToU32(len), ToU32(cs))
            \o CutLast(body, IF Len(body) >= c THEN c ELSE 0)

HeaderSizes == {0, 32, 34}
WideLengths == {256, 257}

\* header fields whose product leaves 32 bits: <<length, charsize, bytes present>>
BigGeometry ==
    {<<ToU32(2), [hi |-> 32768, lo |-> 0], 0>>,
     <<ToU32(65536), ToU32(65536), 0>>,
     <<ToU32(2), [hi |-> 32768, lo |-> 1], 2>>,
     <<ToU32(3), [hi |-> 32768, lo |-> 1], 3>>,
     <<ToU32(65537), ToU32(65536), 4>>,
     <<ToU32(0), [hi |-> 8192, lo |-> 0], 0>>}

PSF2Files ==
    {PSF2File(v, hs, fl, len, cs, t, c) :
        v \in {0, 1}, hs \in HeaderSizes, fl \in {0, 1, 2}, len \in 0..MaxLength,
        cs \in {0, 1, 2}, t \in Trailers2, c \in {0, 1}}
    \cup {PSF2File(0, 32, 1, 2, 1, t, 0) : t \in Tables2}
    \cup {PSF2File(0, 32, 0, len, 1, <<>>, 0) : len \in WideLengths}
    \cup {PSF2HeaderBytes(ToU32(0), ToU32(32), ToU32(0), g[1], g[2]) \o Pattern(g[3]) :
            g \in BigGeometry}

Files == OtherFiles \cup PSF1Files \cup PSF2Files

\* ------------------------------------------------------------------- state
VARIABLES
    arg,              \* env::args().skip(1).next(): "none", "unreadable", "file"
    file,             \* the bytes of the font file
    overflow_checks,  \* the build profile: TRUE panics on integer overflow
    pc,               \* the statement the process is at
    pos,              \* psf_file's read position
    hd,               \* try_from's locals: version and header fields
    bitmap,           \* try_from's bitmap
    table,            \* try_from's table: <<>> is None, <<entries>> is Some
    pt,               \* parse_table's locals
    result,           \* what PSF::try_from returned: "none" until it returns
    panic,            \* the panic that ended the process, "none" if none
    out,              \* the lines printed on standard output
    err,              \* the lines printed on standard error
    em                \* into_verilog's locals

vars == <<arg, file, overflow_checks, pc, pos, hd, bitmap, table, pt,
          result, panic, out, err, em>>

Zero32 == ToU32(0)

\* TableEntry::default()
TableEntryDefault == [represented |-> <<>>, sequences |-> <<>>]

\* parse_table's locals on entry, lines 73-75, 78 and 103
ParseTableEntry(buf) ==
    [table |-> buf, i |-> 0, entries |-> <<>>, current_entry |-> TableEntryDefault,
     sequence_started |-> FALSE, codepoints |-> <<>>]

Init ==
    /\ \/ arg = "file" /\ file \in Files
       \/ arg \in {"none", "unreadable"} /\ file = <<>>
    /\ overflow_checks \in BOOLEAN
    /\ pc = "main"
    /\ pos = 0
    /\ hd = [version |-> "none", mode |-> 0, header_version |-> Zero32,
             header_size |-> Zero32, flags |-> Zero32, length |-> Zero32,
             charsize |-> Zero32, height |-> Zero32, width |-> Zero32]
    /\ bitmap = <<>>
    /\ table = <<>>
    /\ pt = ParseTableEntry(<<>>)
    /\ result = "none"
    /\ panic = "none"
    /\ out = <<>>
    /\ err = <<>>
    /\ em = [length |-> 0, input_width |-> 0, output_width |-> Zero32, i |-> 0]

\* ----------------------------------------------------------- file reading
Max(a, b) == IF a >= b THEN a ELSE b

\* can read_exact fill a buffer of n bytes from position p
ReadOk(p, n) == n = 0 \/ p + n <= Len(file)

\* the n bytes at position p
Bytes(p, n) == SubSeq(file, p + 1, p + n)

\* what read_to_end appends to an empty buffer from position p
read_to_end(p) == SubSeq(file, p + 1, Len(file))

\* a read_to_end that leaves the read position where it was
read_to_end_pos_stale(p) == p

\* the read position after read_to_end from position p
read_to_end_pos(p) == Max(p, Len(file))

\* a failed read_exact: the error goes to the caller through `?`
IoFailure ==
    /\ result' = "IoError"
    /\ pos' = Max(pos, Len(file))
    /\ pc' = "done"

\* ------------------------------------------------------------------- main
\* fn main, lines 9-20: no argument prints the usage and returns Ok(())
Main ==
    /\ pc = "main"
    /\ \/ /\ arg = "none"
          /\ err' = Append(err, "usage")
          /\ pc' = "done"
          /\ UNCHANGED result
       \/ /\ arg = "unreadable"
          /\ result' = "IoError"
          /\ pc' = "done"
          /\ UNCHANGED err
       \/ /\ arg = "file"
          /\ pc' = "try_from"
          /\ UNCHANGED <<err, result>>
    /\ UNCHANGED <<arg, file, overflow_checks, pos, hd, bitmap, table, pt,
                   panic, out, em>>

\* --------------------------------------------------------------- try_from
\* a probe that looks at the first magic byte only
IsPSF1MagicFirstByte(magic) == magic[1] = PSF1_MAGIC[1]

\* magic[0..2] == Self::PSF1_MAGIC, line 165
IsPSF1Magic(magic) == SubSeq(magic, 1, 2) = PSF1_MAGIC

\* magic == Self::PSF2_MAGIC, line 193
IsPSF2Magic(magic) == magic = PSF2_MAGIC

\* lines 163-175, 193-194 and 233-235: the magic probe and the dispatch
TryFromMagic ==
    /\ pc = "try_from"
    /\ IF ~ReadOk(pos, 4)
       THEN IoFailure /\ UNCHANGED hd
       ELSE LET magic == Bytes(pos, 4)
            IN  /\ pos' = pos + 4
                /\ IF IsPSF1Magic(magic)
                   THEN /\ hd' = [hd EXCEPT
                                    !.version = "PSF1",
                                    !.mode = magic[3],
                                    !.height = ToU32(magic[4]),
                                    !.width = ToU32(8),
                                    !.length = IF BitSet(magic[3], PSF1_MODE512)
                                               THEN ToU32(512) ELSE ToU32(256),
                                    !.charsize = ToU32(magic[4])]
                        /\ pc' = "psf1_bitmap"
                        /\ UNCHANGED result
                   ELSE IF IsPSF2Magic(magic)
                   THEN /\ hd' = [hd EXCEPT !.version = "PSF2"]
                        /\ pc' = "psf2_header"
                        /\ UNCHANGED result
                   ELSE /\ result' = "NotPSF"
                        /\ pc' = "done"
                        /\ UNCHANGED hd
    /\ UNCHANGED <<arg, file, overflow_checks, bitmap, table, pt, panic, out,
                   err, em>>

\* lines 176-177: vec![0u8; charsize * length] and read_exact
PSF1Bitmap ==
    /\ pc = "psf1_bitmap"
    /\ LET n == ToNat(hd.charsize) * ToNat(hd.length)
       IN  IF ReadOk(pos, n)
           THEN /\ bitmap' = Bytes(pos, n)
                /\ pos' = pos + n
                /\ pc' = "psf1_table"
                /\ UNCHANGED result
           ELSE IoFailure /\ UNCHANGED bitmap
    /\ UNCHANGED <<arg, file, overflow_checks, hd, table, pt, panic, out, err, em>>

\* mode & PSF1_MODEHASTAB != 0, line 179
PSF1HasTable(mode) == BitSet(mode, PSF1_MODEHASTAB)

\* lines 178-184: the table is read and decoded when the mode says so
PSF1Table ==
    /\ pc = "psf1_table"
    /\ IF PSF1HasTable(hd.mode)
       THEN /\ pt' = ParseTableEntry(read_to_end(pos))
            /\ pos' = read_to_end_pos(pos)
            /\ pc' = "parse_table"
       ELSE /\ pc' = "psf1_ok"
            /\ UNCHANGED <<pt, pos>>
    /\ UNCHANGED <<arg, file, overflow_checks, hd, bitmap, table, result, panic,
                   out, err, em>>

\* lines 185-192: Ok(PSF {..}), and main goes on to into_verilog
PSF1Ok ==
    /\ pc = "psf1_ok"
    /\ result' = "Ok"
    /\ pc' = "into_verilog"
    /\ UNCHANGED <<arg, file, overflow_checks, pos, hd, bitmap, table, pt, panic,
                   out, err, em>>

\* lines 195-203: the seven little-endian fields after the magic
PSF2Header ==
    /\ pc = "psf2_header"
    /\ IF ReadOk(pos, 28)
       THEN LET rest_of_header == Bytes(pos, 28)
                field(k) == from_le_bytes32(SubSeq(rest_of_header, 4 * k + 1, 4 * k + 4))
            IN  /\ hd' = [hd EXCEPT
                            !.header_version = field(0),
                            !.header_size = field(1),
                            !.flags = field(2),
                            !.length = field(3),
                            !.charsize = field(4),
                            !.height = field(5),
                            !.width = field(6)]
                /\ pos' = pos + 28
                /\ pc' = "psf2_seek"
                /\ UNCHANGED result
       ELSE IoFailure /\ UNCHANGED hd
    /\ UNCHANGED <<arg, file, overflow_checks, bitmap, table, pt, panic, out,
                   err, em>>

\* lines 204-209: skip the rest of the header, or warn and stay
PSF2Seek ==
    /\ pc = "psf2_seek"
    /\ IF hd.header_size.hi > 0 \/ hd.header_size.lo >= 32
       THEN /\ pos' = pos + (ToNat(hd.header_size) - 32)
            /\ UNCHANGED err
       ELSE /\ err' = Append(err, "header_size")
            /\ UNCHANGED pos
    /\ pc' = "psf2_bitmap"
    /\ UNCHANGED <<arg, file, overflow_checks, hd, bitmap, table, pt, result,
                   panic, out, em>>

\* lines 210-211: (charsize * length) as usize in u32 arithmetic, read_exact
PSF2Bitmap ==
    /\ pc = "psf2_bitmap"
    /\ IF overflow_checks /\ mul_overflows(hd.charsize, hd.length)
       THEN /\ panic' = "mul_overflow"
            /\ pc' = "done"
            /\ UNCHANGED <<bitmap, pos, result>>
       ELSE LET n == wrapping_mul(hd.charsize, hd.length)
            IN  IF n.hi = 0 /\ ReadOk(pos, n.lo)
                THEN /\ bitmap' = Bytes(pos, n.lo)
                     /\ pos' = pos + n.lo
                     /\ pc' = "psf2_table"
                     /\ UNCHANGED <<result, panic>>
                ELSE IoFailure /\ UNCHANGED <<bitmap, panic>>
    /\ UNCHANGED <<arg, file, overflow_checks, hd, table, pt, out, err, em>>

\* flags & PSF2_HASUNICODETABLE > 0, line 213
PSF2HasTable(flags) == BitSet(flags.lo, PSF2_HASUNICODETABLE)

\* lines 213-219
PSF2Table ==
    /\ pc = "psf2_table"
    /\ IF PSF2HasTable(hd.flags)
       THEN /\ pt' = ParseTableEntry(read_to_end(pos))
            /\ pos' = read_to_end_pos(pos)
            /\ pc' = "parse_table"
       ELSE /\ pc' = "psf2_version"
            /\ UNCHANGED <<pt, pos>>
    /\ UNCHANGED <<arg, file, overflow_checks, hd, bitmap, table, result, panic,
                   out, err, em>>

\* a version check that lets version 1 through
VersionUnsupportedOffByOne(header_version) ==
    header_version.hi > 0 \/ header_version.lo > PSF2_MAXVERSION + 1

\* header_version > PSF2_MAXVERSION, line 221
VersionUnsupported(header_version) ==
    header_version.hi > 0 \/ header_version.lo > PSF2_MAXVERSION

\* lines 221-232: the version check, after every read
PSF2Version ==
    /\ pc = "psf2_version"
    /\ IF VersionUnsupported(hd.header_version)
       THEN /\ result' = "UnsupportedVersion"
            /\ pc' = "done"
       ELSE /\ result' = "Ok"
            /\ pc' = "into_verilog"
    /\ UNCHANGED <<arg, file, overflow_checks, pos, hd, bitmap, table, pt, panic,
                   out, err, em>>

\* ------------------------------------------------------------ parse_table
\* lines 83-96 (and 108-121): a marker flushes the decoded buffer into the
\* current entry, and a separator closes the entry
OnMarker(p, chars, separator) ==
    LET flushed ==
            IF ~p.sequence_started
            THEN [p.current_entry EXCEPT !.represented = chars]
            ELSE [p.current_entry EXCEPT !.sequences = @ \o chars]
    IN  IF separator
        THEN [p EXCEPT !.codepoints = <<>>,
                       !.sequence_started = FALSE,
                       !.entries = Append(@, flushed),
                       !.current_entry = TableEntryDefault]
        ELSE [p EXCEPT !.codepoints = <<>>,
                       !.sequence_started = TRUE,
                       !.current_entry = flushed]

\* lines 79-100: one iteration over a 16-bit little-endian unit
ParseTablePSF1 ==
    /\ pc = "parse_table"
    /\ hd.version = "PSF1"
    /\ pt.i < Len(pt.table)
    /\ IF pt.i + 2 > Len(pt.table)
       THEN /\ panic' = "slice_index"
            /\ pc' = "done"
            /\ UNCHANGED pt
       ELSE LET codepoint == from_le_bytes16(SubSeq(pt.table, pt.i + 1, pt.i + 2))
                chars == decode_utf16(pt.codepoints)
            IN  IF codepoint = PSF1_SEPARATOR \/ codepoint = PSF1_STARTSEQ
                THEN IF chars.ok
                     THEN /\ pt' = [OnMarker(pt, chars.chars, codepoint = PSF1_SEPARATOR)
                                       EXCEPT !.i = pt.i + 2]
                          /\ UNCHANGED <<pc, panic>>
                     ELSE /\ panic' = "unwrap"
                          /\ pc' = "done"
                          /\ UNCHANGED pt
                ELSE /\ pt' = [pt EXCEPT !.codepoints = Append(@, codepoint),
                                         !.i = @ + 2]
                     /\ UNCHANGED <<pc, panic>>
    /\ UNCHANGED <<arg, file, overflow_checks, pos, hd, bitmap, table, result,
                   out, err, em>>

\* lines 104-125: one iteration over a byte
ParseTablePSF2 ==
    /\ pc = "parse_table"
    /\ hd.version = "PSF2"
    /\ pt.i < Len(pt.table)
    /\ LET codepoint == pt.table[pt.i + 1]
           chars == from_utf8(pt.codepoints)
       IN  IF codepoint = PSF2_SEPARATOR \/ codepoint = PSF2_STARTSEQ
           THEN IF chars.ok
                THEN /\ pt' = [OnMarker(pt, chars.chars, codepoint = PSF2_SEPARATOR)
                                  EXCEPT !.i = pt.i + 1]
                     /\ UNCHANGED <<pc, panic>>
                ELSE /\ panic' = "unwrap"
                     /\ pc' = "done"
                     /\ UNCHANGED pt
           ELSE /\ pt' = [pt EXCEPT !.codepoints = Append(@, codepoint),
                                    !.i = @ + 1]
                /\ UNCHANGED <<pc, panic>>
    /\ UNCHANGED <<arg, file, overflow_checks, pos, hd, bitmap, table, result,
                   out, err, em>>

\* line 128: the loop is over, the entries go back to try_from as Some(..)
ParseTableReturn ==
    /\ pc = "parse_table"
    /\ pt.i >= Len(pt.table)
    /\ table' = <<pt.entries>>
    /\ pc' = IF hd.version = "PSF1" THEN "psf1_ok" ELSE "psf2_version"
    /\ UNCHANGED <<arg, file, overflow_checks, pos, hd, bitmap, pt, result,
                   panic, out, err, em>>

\* ----------------------------------------------------------- into_verilog
\* lines 138-144: the glyph's bytes from index j on, two hex digits each
RECURSIVE GlyphHex(_, _, _)
GlyphHex(i, j, charsize) ==
    IF j >= charsize THEN <<>>
    ELSE format_hex2(bitmap[i * charsize + j + 1]) \o GlyphHex(i, j + 1, charsize)

\* input_width - 1 on a u8 in the release build
wrapping_dec8(w) == IF w = 0 THEN 255 ELSE w - 1

\* lines 132-136: the widths, the module line and the always line
IntoVerilogHeader ==
    /\ pc = "into_verilog"
    /\ IF IsZero32(hd.charsize)
       THEN /\ panic' = "div_zero"
            /\ pc' = "done"
            /\ UNCHANGED <<out, em>>
       ELSE LET length == DivNat32(Len(bitmap), hd.charsize)
                input_width == ceil_log2(length)
                output_width == wrapping_mul(hd.charsize, ToU32(8))
            IN  IF overflow_checks /\ mul_overflows(hd.charsize, ToU32(8))
                THEN /\ panic' = "mul_overflow"
                     /\ pc' = "done"
                     /\ UNCHANGED <<out, em>>
                ELSE IF overflow_checks /\ (input_width = 0 \/ IsZero32(output_width))
                THEN /\ panic' = "sub_overflow"
                     /\ pc' = "done"
                     /\ UNCHANGED <<out, em>>
                ELSE /\ em' = [length |-> length, input_width |-> input_width,
                               output_width |-> output_width, i |-> 0]
                     /\ out' = <<[kind |-> "module",
                                  character_msb |-> wrapping_dec8(input_width),
                                  characterraster_msb |-> wrapping_dec(output_width)],
                                 [kind |-> "always"]>>
                     /\ pc' = "emit"
                     /\ UNCHANGED panic
    /\ UNCHANGED <<arg, file, overflow_checks, pos, hd, bitmap, table, pt, result,
                   err>>

\* lines 137-153: the case arm of glyph i
EmitArm ==
    /\ pc = "emit"
    /\ em.i < em.length
    /\ out' = Append(out, [kind |-> "arm",
                           width |-> em.input_width,
                           address |-> format_bin_padded(em.i, em.input_width),
                           data_width |-> em.output_width,
                           data |-> GlyphHex(em.i, 0, ToNat(hd.charsize))])
    /\ em' = [em EXCEPT !.i = @ + 1]
    /\ UNCHANGED <<arg, file, overflow_checks, pc, pos, hd, bitmap, table, pt,
                   result, panic, err>>

\* lines 154-156, and main's Ok(()) on line 19
EmitFooter ==
    /\ pc = "emit"
    /\ em.i >= em.length
    /\ out' = out \o <<[kind |-> "default"], [kind |-> "endcase"],
                       [kind |-> "endmodule"]>>
    /\ pc' = "done"
    /\ UNCHANGED <<arg, file, overflow_checks, pos, hd, bitmap, table, pt,
                   result, panic, err, em>>

\* ---------------------------------------------------------- specification
Next ==
    \/ Main
    \/ TryFromMagic
    \/ PSF1Bitmap
    \/ PSF1Table
    \/ PSF1Ok
    \/ PSF2Header
    \/ PSF2Seek
    \/ PSF2Bitmap
    \/ PSF2Table
    \/ PSF2Version
    \/ ParseTablePSF1
    \/ ParseTablePSF2
    \/ ParseTableReturn
    \/ IntoVerilogHeader
    \/ EmitArm
    \/ EmitFooter

Spec == Init /\ [][Next]_vars

\* ------------------------------------------------- reference definitions
\* the parts of the run the claims speak about
ParseTableCalled ==
    pc = "parse_table" \/ table # <<>> \/ panic \in {"slice_index", "unwrap"}

ParseTableOver == ParseTableCalled /\ pc # "parse_table"

\* the code units of a table region, as the format defines them
UnitsOf(version, region) ==
    IF version = "PSF1"
    THEN [k \in 1..(Len(region) \div 2) |-> region[2 * k - 1] + 256 * region[2 * k]]
    ELSE region

SeparatorOf(version) == IF version = "PSF1" THEN 65535 ELSE 255
StartSeqOf(version) == IF version = "PSF1" THEN 65534 ELSE 254

DecodeOf(version, units) ==
    IF version = "PSF1" THEN decode_utf16(units) ELSE from_utf8(units)

\* the positions of the units equal to m
PositionsOf(units, m) == {k \in 1..Len(units) : units[k] = m}

\* the run of units after position a and before position b
Between(units, a, b) == SubSeq(units, a + 1, b - 1)

\* the largest element of S below k, 0 if there is none
LastBelow(S, k) ==
    IF \E x \in S : x < k
    THEN CHOOSE x \in S : x < k /\ \A y \in S : y < k => y <= x
    ELSE 0

\* the k-th smallest element of a set of numbers
RECURSIVE Nth(_, _)
Nth(S, k) ==
    LET m == CHOOSE x \in S : \A y \in S : x <= y
    IN  IF k = 1 THEN m ELSE Nth(S \ {m}, k - 1)

\* every buffer that is pending at a marker decodes
BuffersValid(version, units) ==
    LET marks == PositionsOf(units, SeparatorOf(version))
                 \cup PositionsOf(units, StartSeqOf(version))
    IN  \A m \in marks :
            DecodeOf(version, Between(units, LastBelow(marks, m), m)).ok

\* the concatenation of the decodings of the runs that end at the markers ms
\* (in ascending order), each run starting after the marker before it
RECURSIVE SequencesOf(_, _, _, _)
SequencesOf(version, units, marks, ms) ==
    IF ms = {} THEN <<>>
    ELSE LET m == CHOOSE x \in ms : \A y \in ms : x <= y
         IN  DecodeOf(version, Between(units, LastBelow(marks, m), m)).chars
                 \o SequencesOf(version, units, marks, ms \ {m})

\* the entry of the record that starts after position a and ends with the
\* separator at position b
EntryOf(version, units, a, b) ==
    LET marks == PositionsOf(units, SeparatorOf(version))
                 \cup PositionsOf(units, StartSeqOf(version))
        inside == {m \in marks : m > a /\ m <= b}
        first == CHOOSE x \in inside : \A y \in inside : x <= y
    IN  [represented |-> DecodeOf(version, Between(units, a, first)).chars,
         sequences |-> SequencesOf(version, units, marks, inside \ {first})]

\* one entry per separator, in scan order
EntriesOf(version, units) ==
    LET seps == PositionsOf(units, SeparatorOf(version))
    IN  [k \in 1..Cardinality(seps) |->
            EntryOf(version, units, LastBelow(seps, Nth(seps, k)), Nth(seps, k))]

\* the glyph count the header declares, read off the file
DeclaredGlyphCount ==
    IF hd.version = "PSF1"
    THEN (IF file[3] % 2 = 1 THEN ToU32(512) ELSE ToU32(256))
    ELSE [lo |-> file[17] + 256 * file[18], hi |-> file[19] + 256 * file[20]]

\* the smallest w with 2^w >= n, for 1 <= n <= 2^16
SmallestWidth(n) == CHOOSE w \in 0..16 : 2^w >= n /\ \A v \in 0..(w - 1) : 2^v < n

\* the number a sequence of binary digits denotes
RECURSIVE BinValue(_)
BinValue(d) == IF d = <<>> THEN 0 ELSE 2 * BinValue(SubSeq(d, 1, Len(d) - 1)) + d[Len(d)]

\* the uppercase hexadecimal digit of a number below 16
HexChar(n) ==
    CASE n = 10 -> "A" [] n = 11 -> "B" [] n = 12 -> "C" [] n = 13 -> "D"
      [] n = 14 -> "E" [] n = 15 -> "F" [] OTHER -> ToString(n)

\* ------------------------------------------------------------------ claims

\* C1: for both formats and every table region whose pending buffers all
\* decode, parse_table returns one entry per separator in scan order, the
\* k-th with `represented` the decoding of the units up to the record's first
\* marker and `sequences` the concatenated decodings of the later buffers of
\* the record; and right after a separator the scanner holds an empty entry,
\* an empty buffer and sequence_started = FALSE.
C1_TableContract ==
    LET units == UnitsOf(hd.version, pt.table)
        unit == IF hd.version = "PSF1" THEN 2 ELSE 1
    IN  /\ (ParseTableOver /\ BuffersValid(hd.version, units))
              => table = <<EntriesOf(hd.version, units)>>
        /\ (pc = "parse_table" /\ pt.i > 0
                /\ units[pt.i \div unit] = SeparatorOf(hd.version))
              => /\ pt.current_entry = TableEntryDefault
                 /\ pt.codepoints = <<>>
                 /\ ~pt.sequence_started

\* C2: for every parsed font into_verilog prints the module line, the always
\* line, one arm per glyph index in ascending order (keyed by the index in
\* exactly address_width binary digits, valued by the glyph's bytes in file
\* order as two uppercase hex digits each), the default arm and the two
\* closing lines.
C2_EmitterOutput ==
    (result = "Ok" /\ pc = "done") =>
        /\ panic = "none"
        /\ LET cs == ToNat(hd.charsize)
               n == Len(bitmap) \div cs
               w == SmallestWidth(n)
           IN  /\ Len(out) = n + 5
               /\ out[1].kind = "module"
               /\ out[2].kind = "always"
               /\ \A i \in 0..(n - 1) :
                    /\ out[3 + i].kind = "arm"
                    /\ Len(out[3 + i].address) = w
                    /\ BinValue(out[3 + i].address) = i
                    /\ Len(out[3 + i].data) = 2 * cs
                    /\ \A j \in 0..(cs - 1) :
                         /\ out[3 + i].data[2 * j + 1] = HexChar(bitmap[i * cs + j + 1] \div 16)
                         /\ out[3 + i].data[2 * j + 2] = HexChar(bitmap[i * cs + j + 1] % 16)
               /\ out[n + 3].kind = "default"
               /\ out[n + 4].kind = "endcase"
               /\ out[n + 5].kind = "endmodule"

\* C3: for every glyph count n >= 1 the emitter completes and declares a
\* character input of ceil(log2(n)) bits, that is [w-1:0] for the smallest w
\* with 2^w >= n, also for n = 1 where w = 0.
C3_AddressWidth ==
    (result = "Ok" /\ pc = "done" /\ ~IsZero32(hd.charsize)
        /\ DivNat32(Len(bitmap), hd.charsize) >= 1) =>
        /\ panic = "none"
        /\ out # <<>>
        /\ out[1].kind = "module"
        /\ out[1].character_msb = SmallestWidth(DivNat32(Len(bitmap), hd.charsize)) - 1

\* C4: every font try_from returns has bitmap.len() = glyph_byte_size *
\* glyph_count (the product taken in 32 bits), with glyph_count 256 or 512
\* by mode bit 0x01 for generation one and the header field for generation
\* two; and bitmap.len() / glyph_byte_size gives glyph_count back.
C4_BitmapGeometry ==
    result = "Ok" =>
        /\ ToU32(Len(bitmap)) = wrapping_mul(hd.charsize, DeclaredGlyphCount)
        /\ ~IsZero32(hd.charsize)
        /\ ToU32(DivNat32(Len(bitmap), hd.charsize)) = DeclaredGlyphCount

\* C5: a generation-one file's trailing bytes are read and decoded (table is
\* Some) exactly when the mode byte has bit 0x02 or bit 0x04.
C5_TableGate ==
    (hd.version = "PSF1" /\ pc = "psf1_ok") =>
        (table # <<>> <=> (BitSet(file[3], PSF1_MODEHASTAB) \/ BitSet(file[3], PSF1_MODEHASSEQ)))

\* C6: a pending buffer that is not valid text at a marker ends the table
\* decode in a decode-error result given to the caller, never in the end of
\* the process.
C6_DecodeFailure ==
    (ParseTableOver /\ ~BuffersValid(hd.version, UnitsOf(hd.version, pt.table))) =>
        /\ panic = "none"
        /\ (pc = "done" => result = "TableDecodeFailure")

\* C7: an input of at least 4 bytes that starts with neither magic ends in
\* NotPSF with nothing printed; and a line is printed only after try_from
\* has returned Ok, so a run that ends in a parse error has printed nothing.
C7_NoOutputBeforeOk ==
    /\ (arg = "file" /\ Len(file) >= 4 /\ pc \notin {"main", "try_from"}
            /\ SubSeq(file, 1, 2) # <<54, 4>>
            /\ SubSeq(file, 1, 4) # <<114, 181, 74, 134>>)
          => (pc = "done" /\ result = "NotPSF" /\ panic = "none" /\ out = <<>>)
    /\ out # <<>> => result = "Ok"
    /\ (pc = "done" /\ result \notin {"Ok", "none"}) => out = <<>>

C7_Witness ==
    pc = "done" /\ result = "NotPSF" /\ Len(file) >= 4 /\ out = <<>>

\* the version field of a file that has the generation-two magic and the
\* field
HasPSF2Version ==
    arg = "file" /\ Len(file) >= 8 /\ SubSeq(file, 1, 4) = <<114, 181, 74, 134>>

FileVersionAboveZero ==
    HasPSF2Version /\ (\E k \in 5..8 : file[k] # 0)

\* the reads of the generation-two branch have all been performed
PSF2ReadsDone ==
    LET start == IF hd.header_size.hi > 0 \/ hd.header_size.lo >= 32
                 THEN ToNat(hd.header_size) ELSE 32
        n == wrapping_mul(hd.charsize, hd.length)
    IN  /\ n.hi = 0
        /\ Len(bitmap) = n.lo
        /\ n.lo > 0 => bitmap = SubSeq(file, start + 1, start + n.lo)
        /\ pos >= start + n.lo
        /\ IF hd.flags.lo % 2 = 1
           THEN table # <<>> /\ pos >= Len(file)
           ELSE table = <<>> /\ pos = start + n.lo

\* C8 as stated: a generation-two file with version field above 0 ends in
\* the unsupported-version error, produced after the skip, the bitmap read
\* and the table read and decode.
C8_Original ==
    (FileVersionAboveZero /\ pc = "done") =>
        /\ result = "UnsupportedVersion"
        /\ PSF2ReadsDone

\* C8 amended: with version field above 0 no Ok font is returned and the run
\* ends in the unsupported-version error, in the I/O error of a read that
\* failed, or in a panic; the unsupported-version error is produced only
\* after the skip, the bitmap read and (flag 0x01) the table read and decode.
C8_LateVersionCheck ==
    FileVersionAboveZero =>
        /\ result \in {"none", "UnsupportedVersion", "IoError"}
        /\ pc \notin {"into_verilog", "emit"}
        /\ out = <<>>
        /\ result = "UnsupportedVersion" => (pc = "done" /\ panic = "none" /\ PSF2ReadsDone)
        /\ pc = "done" => (result = "none" <=> panic # "none")

C8_Witness ==
    /\ FileVersionAboveZero
    /\ result = "UnsupportedVersion"
    /\ table # <<>>
    /\ table[1] # <<>>
    /\ Len(bitmap) > 0

\* C9 as stated: whenever try_from returns a font, the read position is at
\* the end of the stream.
C9_Original ==
    result = "Ok" => pos >= Len(file)

\* C9 amended: when try_from returns a font whose table was read (mode bit
\* 0x02 in generation one, flag 0x01 in generation two) no byte of the input
\* is left unread; with the table flag clear the read position is just past
\* the bitmap, and the bytes after it stay unread.
C9_ReadPosition ==
    result = "Ok" =>
        LET start == IF hd.version = "PSF1" THEN 4
                     ELSE IF hd.header_size.hi > 0 \/ hd.header_size.lo >= 32
                          THEN ToNat(hd.header_size) ELSE 32
            flag == IF hd.version = "PSF1" THEN BitSet(file[3], 2)
                    ELSE file[13] % 2 = 1
        IN  /\ flag <=> table # <<>>
            /\ flag => pos >= Len(file)
            /\ ~flag => pos = start + Len(bitmap)

C9_Witness ==
    /\ result = "Ok"
    /\ table # <<>>
    /\ pt.table # <<>>
    /\ pos = Len(file)

\* C10: for every table region the decoder returns normally, with one entry
\* per separator: the units after the last separator (a final run, a partly
\* built entry, an odd last byte in generation one) add no entry.
C10_TrailingRunDropped ==
    ParseTableOver =>
        /\ panic \notin {"slice_index", "unwrap"}
        /\ table # <<>>
        /\ Len(table[1]) =
              Cardinality(PositionsOf(UnitsOf(hd.version, pt.table),
                                      SeparatorOf(hd.version)))

====
